---- MODULE Spec2Model ----
(***************************************************************************)
(* Model of the voice pipeline of src/app/(tabs)/explore.tsx               *)
(* (EmotionHelper): record -> speech-to-text -> Gemini -> text-to-speech.  *)
(*                                                                         *)
(* One step of the model is one JavaScript task: a press handler up to its *)
(* first pending await, or the continuation that runs when an awaited      *)
(* external call settles, up to the next pending await.  React state       *)
(* setters called in one task are applied together; setters called after   *)
(* the component was unmounted are dropped by React.                       *)
(***************************************************************************)
EXTENDS Naturals, Sequences, FiniteSets

\* ------------------------------------------------------------------ bounds
MaxBegin == 2       \* presses of "Start Recording" in one run
MaxReplay == 2      \* presses of "Listen Again" between two begins
MaxMoves == 4       \* resolved pairs in one card game
MaxExtraFlips == 1  \* cards pressed while a pair waits to be resolved
MaxShots == 2       \* presses of the capture button in one run

Sids == 1..MaxBegin \* one id per startRecording invocation (and its Recording)

\* ------------------------------------------------------------------ values
Null == 0
NoSpeech == "No speech detected"
Transcripts == {"I am happy"}
Answers == {"Happy means you smile.", "Sad means you cry."}

NoError == <<"", "">>
PermissionError == <<"Microphone permission not granted", "">>
RecordingFailed == "Recording failed: "
ProcessingFailed == "Processing failed: "
SpeechErrorPrefix == "Speech Error: "

MsgNetwork == "Network request failed"
MsgTypeError == "TypeError"
MsgNative == "native module error"
MsgSttHttp == "Speech-to-Text API error: 500"
MsgGeminiHttp == "Gemini API request failed: 500"
MsgGeminiKey == "Gemini API key is not configured"

\* Bodies the speech-to-text service can answer with (status 2xx).
SttBodies ==
  {[results |-> <<>>],
   [results |-> <<[alternatives |-> <<>>]>>],
   [results |-> <<[alternatives |-> <<[transcript |-> ""]>>]>>]}
  \cup {[results |-> <<[alternatives |-> <<[transcript |-> t]>>]>>] : t \in Transcripts}

\* Bodies the generation service can answer with (status 2xx): no candidate,
\* a candidate without parts, a part that is not text, a part with text.
GeminiBodies ==
  {[candidates |-> <<>>],
   [candidates |-> <<[content |-> [parts |-> <<>>]]>>],
   [candidates |-> <<[content |-> [parts |-> <<[functionCall |-> "f"]>>]]>>]}
  \cup {[candidates |-> <<[content |-> [parts |-> <<[text |-> a]>>]]>>] : a \in Answers}

\* data.results?.[0]?.alternatives?.[0]?.transcript || 'No speech detected'
convertSpeechToText(data) ==
  LET t == IF Len(data.results) = 0 THEN ""
           ELSE IF Len(data.results[1].alternatives) = 0 THEN ""
           ELSE data.results[1].alternatives[1].transcript
  IN IF t # "" THEN t ELSE NoSpeech

\* data.candidates[0].content.parts[0].text throws a TypeError when
\* candidates[0] or parts[0] is undefined, and is undefined (no exception)
\* when parts[0] has no text.  undefined is held as "": the component only
\* tests geminiResponse for truthiness.
Undefined == ""
GeminiEvaluates(data) ==
  /\ Len(data.candidates) > 0
  /\ Len(data.candidates[1].content.parts) > 0
GeminiPathPresent(data) ==
  /\ GeminiEvaluates(data)
  /\ "text" \in DOMAIN data.candidates[1].content.parts[1]
GeminiText(data) ==
  IF GeminiPathPresent(data) THEN data.candidates[1].content.parts[1].text
  ELSE Undefined

\* --------------------------------------------- values of the card game
\* EMOTIONS (name by id) and LEVELS (pairs by level) of _layout.tsx.
EmotionNames == <<"Happy", "Sad", "Surprised", "Angry", "Sleepy", "Excited">>
Levels == {"EASY", "MEDIUM", "HARD"}
Pairs(level) == CASE level = "EASY" -> 3 [] level = "MEDIUM" -> 4 [] level = "HARD" -> 6

\* The levels the model plays.
PlayedLevels == {"EASY"}

\* level: null
NoLevel == "null"

InitialGameState ==
  [cards |-> <<>>, flippedIndices |-> <<>>, matchedPairs |-> <<>>, moves |-> 0,
   level |-> NoLevel]

\* [...selectedEmotions, ...selectedEmotions].sort(random).map(id by index):
\* every arrangement of the first `pairs` emotions, each twice; the card at
\* (1-based) position i gets the id `${emotion.id}-${i - 1}`.
Shuffles(level) ==
  LET n == 2 * Pairs(level)
      orders == {o \in [1..n -> 1..Pairs(level)] :
                   \A e \in 1..Pairs(level) : Cardinality({i \in 1..n : o[i] = e}) = 2}
  IN {[i \in 1..n |-> [id |-> <<o[i], i - 1>>, name |-> EmotionNames[o[i]]]] : o \in orders}

\* Array.prototype.includes
Includes(seq, x) == \E k \in 1..Len(seq) : seq[k] = x

\* ------------------------------------------ values of the emotion detector
\* The takePicture invocations of a run; the photo of invocation i has uri i.
Shots == 1..MaxShots

\* useCameraPermissions() before the permission is known, and its statuses.
PermissionLoading == "null"
PermissionStatuses == {"undetermined", "denied", "granted"}

\* emotion: null
NoEmotion == "null"

\* The keys of EMOTIONS.  The emoji that ends five of them is written as its
\* code point.
EmotionKeys ==
  {"Happy U+1F60A", "Sad U+1F622", "Surprised U+1F632", "Angry U+1F621",
   "Neutral", "No face detected U+1F615"}

\* Likelihood values of a face annotation (two of the Vision API's six).
Likelihoods == {"VERY_LIKELY", "POSSIBLE"}
LikelihoodFields ==
  {"joyLikelihood", "angerLikelihood", "sorrowLikelihood", "surpriseLikelihood"}
Faces == [LikelihoodFields -> Likelihoods] \cup {[detectionConfidence |-> "1"]}

\* Parsed response bodies: an error body, no response, a response without
\* faceAnnotations, without a face, with a face.
VisionResults ==
  {[error |-> "e"], [responses |-> <<>>], [responses |-> <<[error |-> "e"]>>],
   [responses |-> <<[faceAnnotations |-> <<>>]>>]}
  \cup {[responses |-> <<[faceAnnotations |-> <<face>>]>>] : face \in Faces}

\* How a run of analyzeEmotion goes: a step of it throws, or the body parses.
AnalysisOutcomes ==
  {[kind |-> "readFails"], [kind |-> "fetchFails"], [kind |-> "jsonFails"]}
  \cup {[kind |-> "json", result |-> r] : r \in VisionResults}

\* result.responses?.[0]?.faceAnnotations?.[0] is defined
HasFace(result) ==
  /\ "responses" \in DOMAIN result
  /\ Len(result.responses) > 0
  /\ "faceAnnotations" \in DOMAIN result.responses[1]
  /\ Len(result.responses[1].faceAnnotations) > 0

\* face.field === "VERY_LIKELY"
VeryLikely(face, field) == field \in DOMAIN face /\ face[field] = "VERY_LIKELY"

\* The outcome of an analyzeEmotion run that has not settled.
NotAnalysed == [kind |-> "none"]

\* analyzeEmotion with sorrow looked at before anger.
analyzeEmotionSorrowFirst(outcome) ==
  IF outcome.kind # "json" THEN "No face detected U+1F615"
  ELSE IF ~HasFace(outcome.result) THEN "No face detected U+1F615"
  ELSE LET face == outcome.result.responses[1].faceAnnotations[1]
       IN IF VeryLikely(face, "joyLikelihood") THEN "Happy U+1F60A"
          ELSE IF VeryLikely(face, "sorrowLikelihood") THEN "Sad U+1F622"
          ELSE IF VeryLikely(face, "angerLikelihood") THEN "Angry U+1F621"
          ELSE IF VeryLikely(face, "surpriseLikelihood") THEN "Surprised U+1F632"
          ELSE "Neutral"

\* A throw of readAsStringAsync, fetch or response.json() is caught (lines
\* 134-137); otherwise the label is read off the first face annotation.
analyzeEmotion(outcome) ==
  IF outcome.kind # "json" THEN "No face detected U+1F615"
  ELSE IF ~HasFace(outcome.result) THEN "No face detected U+1F615"
  ELSE LET face == outcome.result.responses[1].faceAnnotations[1]
       IN IF VeryLikely(face, "joyLikelihood") THEN "Happy U+1F60A"
          ELSE IF VeryLikely(face, "angerLikelihood") THEN "Angry U+1F621"
          ELSE IF VeryLikely(face, "sorrowLikelihood") THEN "Sad U+1F622"
          ELSE IF VeryLikely(face, "surpriseLikelihood") THEN "Surprised U+1F632"
          ELSE "Neutral"

\* ------------------------------------------------------------------ state
VARIABLES
  recording, isRecording, transcription, isProcessing, error,
  geminiResponse, isGeminiLoading, isSpeaking,      \* useState hooks
  mounted,                                          \* component is mounted
  apiKeys,                                          \* CONFIG.API_KEYS present?
  startPc, nBegin,                                  \* startRecording invocations
  stopPc, stopRec,                                  \* the stopRecording invocation
  recState, file,                                   \* Audio.Recording objects, their files
  speechQueue,                                      \* utterances given to Speech.speak
  calls, clean, lastStt, lastGen, lastReplayText, nReplay,  \* history since the last begin
  gameState, showCelebration,                       \* useState hooks of EmotionMatchGame
  timers,                                           \* pending setTimeout callbacks
  permission, uri, emotion,                         \* hooks of EmotionDetector
  shotPc, labelOf, outcomeOf                        \* takePicture invocations

react == <<recording, isRecording, transcription, isProcessing, error,
           geminiResponse, isGeminiLoading, isSpeaking>>
threads == <<startPc, nBegin, stopPc, stopRec>>
devices == <<recState, file, speechQueue>>
history == <<calls, clean, lastStt, lastGen, lastReplayText, nReplay>>
voice == <<react, mounted, apiKeys, threads, devices, history>>
game == <<gameState, showCelebration, timers>>
detector == <<permission, uri, emotion, shotPc, labelOf, outcomeOf>>
otherTabs == <<game, detector>>
vars == <<voice, game, detector>>

\* The value `recording` had at the first render: the cleanup effect has an
\* empty dependency list, so its closure keeps this value.
InitialRecording == Null

Init ==
  /\ recording = InitialRecording
  /\ isRecording = FALSE
  /\ transcription = ""
  /\ isProcessing = FALSE
  /\ error = NoError
  /\ geminiResponse = ""
  /\ isGeminiLoading = FALSE
  /\ isSpeaking = FALSE
  /\ mounted = TRUE
  /\ apiKeys \in [{"GEMINI", "GOOGLE_CLOUD"} -> BOOLEAN]
  /\ startPc = [i \in Sids |-> "unused"]
  /\ nBegin = 0
  /\ stopPc = "idle"
  /\ stopRec = Null
  /\ recState = [i \in Sids |-> "none"]
  /\ file = [i \in Sids |-> FALSE]
  /\ speechQueue = <<>>
  /\ calls = <<>>
  /\ clean = TRUE
  /\ lastStt = ""
  /\ lastGen = ""
  /\ lastReplayText = ""
  /\ nReplay = 0
  /\ gameState = InitialGameState
  /\ showCelebration = FALSE
  /\ timers = {}
  /\ permission = PermissionLoading
  /\ uri = Null
  /\ emotion = NoEmotion
  /\ shotPc = [i \in Shots |-> "unused"]
  /\ labelOf = [i \in Shots |-> NoEmotion]
  /\ outcomeOf = [i \in Shots |-> NotAnalysed]

\* A state setter: React drops updates of an unmounted component.
Set(old, new) == IF mounted THEN new ELSE old

\* RecordButton isDisabled
ToggleDisabled == isProcessing \/ isGeminiLoading \/ isSpeaking

\* The state of the spec's state machine that the rendered flags show.
SessionState ==
  IF isRecording THEN "Recording"
  ELSE IF isSpeaking THEN "Speaking"
  ELSE IF isGeminiLoading THEN "Generating"
  ELSE IF isProcessing THEN "Transcribing"
  ELSE IF error # NoError THEN "Error"
  ELSE "Idle"

\* The error kinds of the spec that a displayed error message can stand for.
\* A failed fetch has the same message in both network stages.
ErrorKinds(e) ==
  IF e = NoError THEN {}
  ELSE IF e = PermissionError THEN {"PermissionDenied"}
  ELSE IF e[1] = RecordingFailed THEN {"CaptureFailed"}
  ELSE IF e[1] = SpeechErrorPrefix THEN {"SynthesisFailed"}
  ELSE IF e[2] = MsgSttHttp THEN {"TranscriptionFailed"}
  ELSE IF e[2] \in {MsgGeminiHttp, MsgGeminiKey} THEN {"GenerationFailed"}
  ELSE IF e[2] = MsgNetwork THEN {"TranscriptionFailed", "GenerationFailed"}
  ELSE {"CaptureFailed", "TranscriptionFailed", "GenerationFailed"}

\* ResponseView is rendered and its button is enabled
ReplayEnabled == geminiResponse # "" /\ ~isSpeaking

\* ------------------------------------------------ speakResponse, Speech
\* speakResponse(text): setIsSpeaking(true), then Speech.speak either takes
\* the utterance or throws (caught: error set, isSpeaking cleared).  The
\* await of Speech.speak's (void) result does not yield to another task.
SpeakResponse(text, throws) ==
  /\ isSpeaking' = Set(isSpeaking, ~throws)
  /\ error' = IF throws THEN Set(error, <<SpeechErrorPrefix, MsgNative>>) ELSE error
  /\ speechQueue' = IF throws THEN speechQueue ELSE Append(speechQueue, text)
  /\ calls' = Append(calls, "synthesis")
  /\ clean' = (clean /\ ~throws)

\* onPress of "Listen Again": speakResponse(geminiResponse)
Replay ==
  /\ mounted /\ ReplayEnabled
  /\ nReplay < MaxReplay
  /\ \E throws \in BOOLEAN : SpeakResponse(geminiResponse, throws)
  /\ nReplay' = nReplay + 1
  /\ lastReplayText' = geminiResponse
  /\ UNCHANGED <<recording, isRecording, transcription, isProcessing,
                 geminiResponse, isGeminiLoading, mounted, apiKeys, otherTabs, threads,
                 recState, file, lastStt, lastGen>>

\* An onDone that forgets setIsSpeaking(false).
SpeechDoneKeepsSpeaking ==
  /\ speechQueue # <<>>
  /\ speechQueue' = Tail(speechQueue)
  /\ isSpeaking' = isSpeaking
  /\ UNCHANGED <<recording, isRecording, transcription, isProcessing, error,
                 geminiResponse, isGeminiLoading, mounted, apiKeys, otherTabs, threads,
                 recState, file, history>>

\* The utterance at the head of the queue ends: onDone
SpeechDone ==
  /\ speechQueue # <<>>
  /\ speechQueue' = Tail(speechQueue)
  /\ isSpeaking' = Set(isSpeaking, FALSE)
  /\ UNCHANGED <<recording, isRecording, transcription, isProcessing, error,
                 geminiResponse, isGeminiLoading, mounted, apiKeys, otherTabs, threads,
                 recState, file, history>>

\* The utterance at the head of the queue fails: onError
SpeechError ==
  /\ speechQueue # <<>>
  /\ speechQueue' = Tail(speechQueue)
  /\ error' = Set(error, <<SpeechErrorPrefix, MsgNative>>)
  /\ isSpeaking' = Set(isSpeaking, FALSE)
  /\ clean' = FALSE
  /\ UNCHANGED <<recording, isRecording, transcription, isProcessing,
                 geminiResponse, isGeminiLoading, mounted, apiKeys, otherTabs, threads,
                 recState, file, calls, lastStt, lastGen, lastReplayText,
                 nReplay>>

\* ------------------------------------------------------- startRecording
\* Positions of a startRecording invocation: not yet pressed, waiting for one
\* of its four awaits, or returned (recording started, permission denied,
\* exception caught).
StartInFlight == {"speechStop", "permission", "audioMode", "create"}
StartReturned == {"started", "denied", "failed"}

\* catch block of startRecording
StartCatch(i) ==
  /\ error' = Set(error, <<RecordingFailed, MsgNative>>)
  /\ startPc' = [startPc EXCEPT ![i] = "failed"]
  /\ clean' = FALSE
  /\ UNCHANGED <<recording, isRecording, transcription, isProcessing,
                 geminiResponse, isGeminiLoading, isSpeaking, mounted, apiKeys, otherTabs,
                 nBegin, stopPc, stopRec, devices, calls, lastStt, lastGen,
                 lastReplayText, nReplay>>

\* onPress while isRecording is false: startRecording runs up to
\* `await Speech.stop()`; Speech.stop() drops every queued utterance (their
\* onDone/onError are not called).
PressStart ==
  /\ mounted /\ ~ToggleDisabled /\ ~isRecording
  /\ nBegin < MaxBegin
  /\ nBegin' = nBegin + 1
  /\ startPc' = [startPc EXCEPT ![nBegin + 1] = "speechStop"]
  /\ error' = NoError
  /\ geminiResponse' = ""
  /\ speechQueue' = <<>>
  /\ calls' = <<>> /\ clean' = TRUE /\ lastStt' = "" /\ lastGen' = ""
  /\ lastReplayText' = "" /\ nReplay' = 0
  /\ UNCHANGED <<recording, isRecording, transcription, isProcessing,
                 isGeminiLoading, isSpeaking, mounted, apiKeys, otherTabs, stopPc, stopRec,
                 recState, file>>

\* Speech.stop() settles; on success Audio.requestPermissionsAsync() is called
SpeechStopReturns(i) ==
  /\ startPc[i] = "speechStop"
  /\ \/ /\ startPc' = [startPc EXCEPT ![i] = "permission"]
        /\ UNCHANGED <<react, mounted, apiKeys, otherTabs, nBegin, stopPc, stopRec, devices,
                       history>>
     \/ StartCatch(i)

\* The permission request settles
PermissionReturns(i) ==
  /\ startPc[i] = "permission"
  /\ \/ /\ startPc' = [startPc EXCEPT ![i] = "audioMode"]     \* granted
        /\ UNCHANGED <<react, mounted, apiKeys, otherTabs, nBegin, stopPc, stopRec, devices,
                       history>>
     \/ /\ error' = Set(error, PermissionError)                \* not granted
        /\ startPc' = [startPc EXCEPT ![i] = "denied"]
        /\ clean' = FALSE
        /\ UNCHANGED <<recording, isRecording, transcription, isProcessing,
                       geminiResponse, isGeminiLoading, isSpeaking, mounted,
                       apiKeys, otherTabs, nBegin, stopPc, stopRec, devices, calls, lastStt,
                       lastGen, lastReplayText, nReplay>>
     \/ StartCatch(i)

\* Audio.setAudioModeAsync settles; on success Recording.createAsync is called
AudioModeReturns(i) ==
  /\ startPc[i] = "audioMode"
  /\ \/ /\ startPc' = [startPc EXCEPT ![i] = "create"]
        /\ UNCHANGED <<react, mounted, apiKeys, otherTabs, nBegin, stopPc, stopRec, devices,
                       history>>
     \/ StartCatch(i)

\* Audio.Recording.createAsync settles: setRecording, setIsRecording(true).
\* The microphone is a singleton: a recording is created only while no
\* other recording is prepared (createAsync rejects otherwise).
CreateReturns(i) ==
  /\ startPc[i] = "create"
  /\ \/ /\ \A j \in Sids : recState[j] # "live"
        /\ recState' = [recState EXCEPT ![i] = "live"]
        /\ file' = [file EXCEPT ![i] = TRUE]
        /\ recording' = Set(recording, i)
        /\ isRecording' = Set(isRecording, TRUE)
        /\ startPc' = [startPc EXCEPT ![i] = "started"]
        /\ UNCHANGED <<transcription, isProcessing, error, geminiResponse,
                       isGeminiLoading, isSpeaking, mounted, apiKeys, otherTabs, nBegin,
                       stopPc, stopRec, speechQueue, history>>
     \/ StartCatch(i)

\* -------------------------------------------------------- stopRecording
\* catch and finally of stopRecording: setError, setIsProcessing(false),
\* setIsGeminiLoading(false).  Neither deletes the file nor clears `recording`.
StopCatch(msg) ==
  /\ error' = Set(error, <<ProcessingFailed, msg>>)
  /\ isProcessing' = Set(isProcessing, FALSE)
  /\ isGeminiLoading' = Set(isGeminiLoading, FALSE)
  /\ stopPc' = "idle"
  /\ stopRec' = Null
  /\ clean' = FALSE

\* A finally block that forgets setIsGeminiLoading(false).
StopFinallyKeepsLoading ==
  /\ isProcessing' = Set(isProcessing, FALSE)
  /\ isGeminiLoading' = isGeminiLoading
  /\ stopPc' = "idle"
  /\ stopRec' = Null

\* finally of stopRecording on the path without an exception
StopFinally ==
  /\ isProcessing' = Set(isProcessing, FALSE)
  /\ isGeminiLoading' = Set(isGeminiLoading, FALSE)
  /\ stopPc' = "idle"
  /\ stopRec' = Null

\* onPress while isRecording is true: stopRecording runs up to
\* `await recording.stopAndUnloadAsync()`, with the `recording` of the render
\* the press was made in; a null recording throws at once.
PressStop ==
  /\ mounted /\ ~ToggleDisabled /\ isRecording
  /\ isRecording' = FALSE
  /\ IF recording = Null
       THEN /\ error' = <<ProcessingFailed, MsgTypeError>>
            /\ clean' = FALSE
            /\ UNCHANGED <<isProcessing, stopPc, stopRec>>
       ELSE /\ error' = NoError
            /\ isProcessing' = TRUE
            /\ stopPc' = "stopAndUnload"
            /\ stopRec' = recording
            /\ UNCHANGED clean
  /\ UNCHANGED <<recording, transcription, geminiResponse, isGeminiLoading,
                 isSpeaking, mounted, apiKeys, otherTabs, startPc, nBegin, devices, calls,
                 lastStt, lastGen, lastReplayText, nReplay>>

\* stopAndUnloadAsync settles; on success getURI and readAsStringAsync.
\* When it rejects, the recorder may or may not have been unloaded.
StopAndUnloadReturns ==
  /\ stopPc = "stopAndUnload"
  /\ \/ /\ recState[stopRec] = "live"
        /\ recState' = [recState EXCEPT ![stopRec] = "unloaded"]
        /\ stopPc' = "read"
        /\ UNCHANGED <<react, mounted, apiKeys, otherTabs, startPc, nBegin, stopRec, file,
                       speechQueue, history>>
     \/ /\ StopCatch(MsgNative)
        /\ \E st \in {recState[stopRec], "unloaded"} :
             recState' = [recState EXCEPT ![stopRec] = st]
        /\ UNCHANGED <<recording, isRecording, transcription, geminiResponse,
                       isSpeaking, mounted, apiKeys, otherTabs, startPc, nBegin, file,
                       speechQueue, calls, lastStt, lastGen, lastReplayText,
                       nReplay>>

\* readAsStringAsync settles; on success convertSpeechToText sends its request
ReadReturns ==
  /\ stopPc = "read"
  /\ \/ /\ file[stopRec]
        /\ stopPc' = "stt"
        /\ calls' = Append(calls, "transcription")
        /\ UNCHANGED <<react, mounted, apiKeys, otherTabs, startPc, nBegin, stopRec, devices,
                       clean, lastStt, lastGen, lastReplayText, nReplay>>
     \/ /\ StopCatch(MsgNative)
        /\ UNCHANGED <<recording, isRecording, transcription, geminiResponse,
                       isSpeaking, mounted, apiKeys, otherTabs, startPc, nBegin, devices,
                       calls, lastStt, lastGen, lastReplayText, nReplay>>

\* The speech-to-text fetch fails, or answers with a status that is not ok
SttFails ==
  /\ stopPc = "stt"
  /\ \E msg \in {MsgNetwork, MsgSttHttp} : StopCatch(msg)
  /\ UNCHANGED <<recording, isRecording, transcription, geminiResponse,
                 isSpeaking, mounted, apiKeys, otherTabs, startPc, nBegin, devices,
                 calls, lastStt, lastGen, lastReplayText, nReplay>>

\* The speech-to-text fetch answers ok (which takes a valid key):
\* setTranscription; then either getGeminiResponse is called (it throws
\* without a key, else sends its request) or deleteAsync is called.
SttReturns ==
  /\ stopPc = "stt"
  /\ apiKeys["GOOGLE_CLOUD"]
  /\ \E data \in SttBodies :
       LET transcribedText == convertSpeechToText(data) IN
       /\ transcription' = Set(transcription, transcribedText)
       /\ lastStt' = transcribedText
       /\ IF transcribedText # NoSpeech
            THEN IF apiKeys["GEMINI"]
                   THEN /\ isGeminiLoading' = Set(isGeminiLoading, TRUE)
                        /\ stopPc' = "gen"
                        /\ calls' = Append(calls, "generation")
                        /\ UNCHANGED <<isProcessing, error, stopRec, clean>>
                   ELSE /\ StopCatch(MsgGeminiKey)
                        /\ UNCHANGED calls
            ELSE /\ stopPc' = "delete"
                 /\ UNCHANGED <<isProcessing, error, isGeminiLoading, stopRec,
                                calls, clean>>
  /\ UNCHANGED <<recording, isRecording, geminiResponse, isSpeaking, mounted,
                 apiKeys, otherTabs, startPc, nBegin, devices, lastGen, lastReplayText,
                 nReplay>>

\* The generation fetch fails, answers with a status that is not ok, or
\* answers ok with a body that lacks candidates[0] or parts[0]
GeminiFails ==
  /\ stopPc = "gen"
  /\ \E msg \in {MsgNetwork, MsgGeminiHttp, MsgTypeError} : StopCatch(msg)
  /\ UNCHANGED <<recording, isRecording, transcription, geminiResponse,
                 isSpeaking, mounted, apiKeys, otherTabs, startPc, nBegin, devices,
                 calls, lastStt, lastGen, lastReplayText, nReplay>>

\* A stopRecording that speaks the generated text without setGeminiResponse.
GeminiReturnsKeepsAnswer ==
  /\ stopPc = "gen"
  /\ \E data \in {d \in GeminiBodies : GeminiEvaluates(d)}, throws \in BOOLEAN :
       /\ geminiResponse' = geminiResponse
       /\ lastGen' = GeminiText(data)
       /\ SpeakResponse(GeminiText(data), throws)
  /\ stopPc' = "delete"
  /\ UNCHANGED <<recording, isRecording, transcription, isProcessing,
                 isGeminiLoading, mounted, apiKeys, otherTabs, startPc, nBegin, stopRec,
                 recState, file, lastStt, lastReplayText, nReplay>>

\* The generation fetch answers ok and the text (or undefined) is read:
\* setGeminiResponse, speakResponse, then deleteAsync is called.
GeminiReturns ==
  /\ stopPc = "gen"
  /\ \E data \in {d \in GeminiBodies : GeminiEvaluates(d)}, throws \in BOOLEAN :
       /\ geminiResponse' = Set(geminiResponse, GeminiText(data))
       /\ lastGen' = GeminiText(data)
       /\ SpeakResponse(GeminiText(data), throws)
  /\ stopPc' = "delete"
  /\ UNCHANGED <<recording, isRecording, transcription, isProcessing,
                 isGeminiLoading, mounted, apiKeys, otherTabs, startPc, nBegin, stopRec,
                 recState, file, lastStt, lastReplayText, nReplay>>

\* deleteAsync settles: on success setRecording(null); then finally
DeleteReturns ==
  /\ stopPc = "delete"
  /\ \/ /\ file' = [file EXCEPT ![stopRec] = FALSE]
        /\ recording' = Set(recording, Null)
        /\ StopFinally
        /\ UNCHANGED <<error, clean>>
     \/ /\ StopCatch(MsgNative)
        /\ UNCHANGED <<recording, file>>
  /\ UNCHANGED <<isRecording, transcription, geminiResponse, isSpeaking, mounted,
                 apiKeys, otherTabs, startPc, nBegin, recState, speechQueue, calls, lastStt,
                 lastGen, lastReplayText, nReplay>>

\* ------------------------------------------------------------- teardown
\* The cleanup effect: recording?.stopAndUnloadAsync() on the recording of the
\* first render, then Speech.stop().
Unmount ==
  /\ mounted
  /\ mounted' = FALSE
  /\ recState' = IF InitialRecording = Null THEN recState
                 ELSE [recState EXCEPT ![InitialRecording] = "unloaded"]
  /\ speechQueue' = <<>>
  /\ UNCHANGED <<react, apiKeys, otherTabs, threads, file, history>>

Next ==
  \/ PressStart
  \/ \E i \in Sids : SpeechStopReturns(i)
  \/ \E i \in Sids : PermissionReturns(i)
  \/ \E i \in Sids : AudioModeReturns(i)
  \/ \E i \in Sids : CreateReturns(i)
  \/ PressStop
  \/ StopAndUnloadReturns
  \/ ReadReturns
  \/ SttFails
  \/ SttReturns
  \/ GeminiFails
  \/ GeminiReturns
  \/ DeleteReturns
  \/ Replay
  \/ SpeechDone
  \/ SpeechError
  \/ Unmount

Spec == Init /\ [][Next]_vars

\* A step in which an external call settles or an utterance ends.
Response ==
  \/ \E i \in Sids : \/ SpeechStopReturns(i)
                      \/ PermissionReturns(i)
                      \/ AudioModeReturns(i)
                      \/ CreateReturns(i)
  \/ StopAndUnloadReturns
  \/ ReadReturns
  \/ SttFails \/ SttReturns
  \/ GeminiFails \/ GeminiReturns
  \/ DeleteReturns
  \/ SpeechDone \/ SpeechError

\* While any external call is outstanding or any utterance is held, one of
\* them eventually settles; presses and the unmount are up to the user.
Responsive == WF_vars(Response)

LiveSpec == Init /\ [][Next]_vars /\ Responsive

\* ------------------------------------------- EmotionMatchGame (_layout.tsx)
\* LevelSelect is rendered while no level is set; its press starts a game.
startGame(level) ==
  /\ gameState.level = NoLevel
  /\ \E gameCards \in Shuffles(level) :
       gameState' = [cards |-> gameCards, flippedIndices |-> <<>>,
                     matchedPairs |-> <<>>, moves |-> 0, level |-> level]
  /\ UNCHANGED <<showCelebration, timers, voice, detector>>

\* firstCard.name === secondCard.name
IsMatchAnyTwo(firstCard, secondCard) == TRUE

IsMatch(firstCard, secondCard) == firstCard.name = secondCard.name

\* A press of the card at position index.  The Pressable is disabled for a
\* flipped or matched card, which is also the handler's early return.  The
\* timer callback closes over the gameState of the render the press ran in.
\* Speech.speak may throw, which ends the handler before the pair is looked at.
handleCardPress(index) ==
  LET cards == gameState.cards
      flippedIndices == gameState.flippedIndices
      matchedPairs == gameState.matchedPairs
      newFlippedIndices == Append(flippedIndices, index)
      firstCard == cards[newFlippedIndices[1]]
      secondCard == cards[newFlippedIndices[2]]
  IN /\ gameState.level # NoLevel
     /\ index \in 1..Len(cards)
     /\ ~(Includes(flippedIndices, index) \/ Includes(matchedPairs, cards[index].id))
     /\ gameState.moves < MaxMoves
     /\ Len(flippedIndices) < 2 + MaxExtraFlips
     /\ gameState' = [gameState EXCEPT !.flippedIndices = newFlippedIndices]
     /\ \E throws \in BOOLEAN :
          timers' =
            IF throws \/ Len(newFlippedIndices) # 2 THEN timers
            ELSE IF IsMatch(firstCard, secondCard)
              THEN timers \cup
                     {[gameState |-> gameState, match |-> TRUE,
                       newMatchedPairs |->
                         matchedPairs \o <<firstCard.id, secondCard.id>>]}
              ELSE timers \cup
                     {[gameState |-> gameState, match |-> FALSE,
                       newMatchedPairs |-> matchedPairs]}
     /\ UNCHANGED <<showCelebration, voice, detector>>

\* The callback of the 1000 ms timer of a match.
MatchTimeout(t) ==
  /\ t \in timers /\ t.match
  /\ timers' = timers \ {t}
  /\ gameState' = [t.gameState EXCEPT !.matchedPairs = t.newMatchedPairs,
                                      !.flippedIndices = <<>>,
                                      !.moves = t.gameState.moves + 1]
  /\ showCelebration' =
       IF Len(t.newMatchedPairs) = Len(t.gameState.cards) THEN TRUE ELSE showCelebration
  /\ UNCHANGED <<voice, detector>>

\* The callback of the 1500 ms timer of a mismatch.
MismatchTimeoutAddsNoMove(t) ==
  /\ t \in timers /\ ~t.match
  /\ timers' = timers \ {t}
  /\ gameState' = [t.gameState EXCEPT !.flippedIndices = <<>>]
  /\ UNCHANGED <<showCelebration, voice, detector>>

MismatchTimeout(t) ==
  /\ t \in timers /\ ~t.match
  /\ timers' = timers \ {t}
  /\ gameState' = [t.gameState EXCEPT !.flippedIndices = <<>>,
                                      !.moves = t.gameState.moves + 1]
  /\ UNCHANGED <<showCelebration, voice, detector>>

\* "Play Again" of the celebration overlay.
resetGame ==
  /\ gameState.level # NoLevel /\ showCelebration
  /\ showCelebration' = FALSE
  /\ gameState' = InitialGameState
  /\ UNCHANGED <<timers, voice, detector>>

GameNext ==
  \/ \E level \in PlayedLevels : startGame(level)
  \/ \E index \in 1..(2 * Pairs("HARD")) : handleCardPress(index)
  \/ \E t \in timers : MatchTimeout(t)
  \/ \E t \in timers : MismatchTimeout(t)
  \/ resetGame

GameInit == Init /\ \A k \in DOMAIN apiKeys : apiKeys[k]

GameSpec == GameInit /\ [][GameNext]_vars

\* --------------------------------------------- EmotionDetector (index.tsx)
\* The permission hook delivers the stored status.
PermissionLoads ==
  /\ permission = PermissionLoading
  /\ permission' \in PermissionStatuses
  /\ UNCHANGED <<uri, emotion, shotPc, labelOf, outcomeOf, voice, game>>

\* The button of PermissionRequest: the request settles granted or denied.
requestPermission ==
  /\ permission \in PermissionStatuses \ {"granted"}
  /\ permission' \in {"granted", "denied"}
  /\ UNCHANGED <<uri, emotion, shotPc, labelOf, outcomeOf, voice, game>>

\* The capture button of CameraScreen, shown while no photo is held: invocation
\* i of takePicture runs up to the pending takePictureAsync.
takePicture(i) ==
  /\ permission = "granted" /\ uri = Null
  /\ shotPc[i] = "unused" /\ \A j \in Shots : j < i => shotPc[j] # "unused"
  /\ shotPc' = [shotPc EXCEPT ![i] = "camera"]
  /\ UNCHANGED <<permission, uri, emotion, labelOf, outcomeOf, voice, game>>

\* takePicture declares `const detectedEmotion = ""` and then assigns to it.
\* What the assignment does depends on the build: the transpiled code throws
\* before the right-hand side is evaluated, the engine throws a TypeError
\* after it is evaluated, or an engine that does not enforce const assigns.
\* One run has one build: an invocation behaves as the earlier ones did.
ConstAssignments == {"throwsBefore", "throwsAfter", "assigns"}
BuildCanBe(b) ==
  \A j \in Shots :
    /\ shotPc[j] = "threwBefore" => b = "throwsBefore"
    /\ shotPc[j] = "analyze" => b # "throwsBefore"
    /\ shotPc[j] = "threwAfter" => b = "throwsAfter"
    /\ shotPc[j] = "assigned" => b = "assigns"

\* takePictureAsync settles: it rejects, gives no photo uri, or gives the
\* photo; then setUri and the first half of the assignment statement.
TakePictureReturns(i) ==
  /\ shotPc[i] = "camera"
  /\ \/ /\ \E end \in {"rejected", "noPhoto"} : shotPc' = [shotPc EXCEPT ![i] = end]
        /\ UNCHANGED uri
     \/ /\ uri' = i
        /\ \/ /\ BuildCanBe("throwsBefore")
              /\ shotPc' = [shotPc EXCEPT ![i] = "threwBefore"]
           \/ /\ BuildCanBe("throwsAfter") \/ BuildCanBe("assigns")
              /\ shotPc' = [shotPc EXCEPT ![i] = "analyze"]
  /\ UNCHANGED <<permission, emotion, labelOf, outcomeOf, voice, game>>

\* analyzeEmotion settles with its label; the assignment throws, or it
\* assigns and setEmotion runs.
AnalyzeReturns(i) ==
  /\ shotPc[i] = "analyze"
  /\ \E outcome \in AnalysisOutcomes :
       /\ outcomeOf' = [outcomeOf EXCEPT ![i] = outcome]
       /\ labelOf' = [labelOf EXCEPT ![i] = analyzeEmotion(outcome)]
       /\ \/ /\ BuildCanBe("throwsAfter")
             /\ shotPc' = [shotPc EXCEPT ![i] = "threwAfter"]
             /\ UNCHANGED emotion
          \/ /\ BuildCanBe("assigns")
             /\ shotPc' = [shotPc EXCEPT ![i] = "assigned"]
             /\ emotion' = analyzeEmotion(outcome)
  /\ UNCHANGED <<permission, uri, voice, game>>

\* "Play Again" of ResultScreen, shown while a photo is held: the resetGame
\* of EmotionDetector.
resetGame_EmotionDetector ==
  /\ permission = "granted" /\ uri # Null
  /\ uri' = Null
  /\ emotion' = NoEmotion
  /\ UNCHANGED <<permission, shotPc, labelOf, outcomeOf, voice, game>>

DetectorNext ==
  \/ PermissionLoads
  \/ requestPermission
  \/ \E i \in Shots : takePicture(i)
  \/ \E i \in Shots : TakePictureReturns(i)
  \/ \E i \in Shots : AnalyzeReturns(i)
  \/ resetGame_EmotionDetector

DetectorSpec == GameInit /\ [][DetectorNext]_vars

\* ------------------------------------------------------------ sanity
TypeOK ==
  /\ recording \in Sids \cup {Null}
  /\ isRecording \in BOOLEAN /\ isProcessing \in BOOLEAN
  /\ isGeminiLoading \in BOOLEAN /\ isSpeaking \in BOOLEAN /\ mounted \in BOOLEAN
  /\ transcription \in Transcripts \cup {NoSpeech, ""}
  /\ geminiResponse \in Answers \cup {""}
  /\ startPc \in [Sids -> StartInFlight \cup StartReturned \cup {"unused"}]
  /\ nBegin \in 0..MaxBegin /\ nReplay \in 0..MaxReplay
  /\ stopPc \in {"idle", "stopAndUnload", "read", "stt", "gen", "delete"}
  /\ stopRec \in Sids \cup {Null}
  /\ recState \in [Sids -> {"none", "live", "unloaded"}]
  /\ file \in [Sids -> BOOLEAN]

\* While mounted, a running stopRecording keeps the toggle disabled, so there
\* is never a second stopRecording in flight.
OneStopRecording ==
  /\ (stopPc # "idle") = (stopRec # Null)
  /\ (mounted /\ stopPc # "idle") => isProcessing

\* ------------------------------------------------------------ claims
\* A begin is in flight (startRecording has not returned), a recording is
\* shown, or the pipeline of an end is running or speaking.
BeginsInFlight == {i \in Sids : startPc[i] \in StartInFlight}
PermissionRequestsPending == {i \in Sids : startPc[i] = "permission"}
CaptureStartsPending == {i \in Sids : startPc[i] = "create"}

\* C1: at most one Session is active at a time: a begin pressed while the
\* permission request or the capture start of an earlier begin is pending
\* is a no-op, so there is never a second begin in flight, a second pending
\* permission request or a second pending capture start, and no begin is in
\* flight while a recording or its processing is shown.
C1_AtMostOneActiveSession ==
  /\ Cardinality(BeginsInFlight) <= 1
  /\ Cardinality(PermissionRequestsPending) <= 1
  /\ Cardinality(CaptureStartsPending) <= 1
  /\ (BeginsInFlight # {}) => SessionState \in {"Idle", "Error"}

\* stopRecording returns in this step (any path: the null-recording throw of
\* the press itself, an exception, or the end of the try block).
StopRecordingReturns ==
  \/ stopPc # "idle" /\ stopPc' = "idle"
  \/ isRecording /\ ~isRecording' /\ stopPc = "idle" /\ stopPc' = "idle"

\* C2: after any end or processing error no capture resource remains live:
\* when stopRecording returns, on every path, the recording it was pressed
\* for is unloaded, its file is deleted and `recording` is null.
C2_NoCaptureResourceAfterEnd ==
  [][(mounted /\ StopRecordingReturns) =>
       /\ recording' = Null
       /\ \A i \in Sids : recState'[i] # "live" \/ i # stopRec
       /\ \A i \in Sids : ~file'[i] \/ i # stopRec]_vars

\* C3: teardown stops and unloads the active recording and cancels the
\* speech in flight.
C3_TeardownStopsRecordingAndSpeech ==
  [][(mounted /\ ~mounted') =>
       /\ (isRecording /\ recording # Null) => recState'[recording] # "live"
       /\ speechQueue' = <<>>]_vars

\* C4: after teardown no result of a call in flight mutates the session
\* state, and in particular no generation request and no synthesis request
\* is issued.
C4_NothingAfterTeardown ==
  [][~mounted =>
       /\ UNCHANGED react
       /\ stopPc' = "gen" => stopPc = "gen"
       /\ Len(speechQueue') <= Len(speechQueue)]_vars

\* A result of begin i arrives in this step: its permission answer or the
\* result of its capture start.
StartResultArrives(i) ==
  startPc[i] \in {"permission", "create"} /\ startPc'[i] # startPc[i]

\* C5: a result is applied only if the Session that issued it is still the
\* current one: once begin i has been superseded by a later begin, the
\* results of begin i leave the session state unchanged.
C5_StaleResultDiscarded ==
  [][\A i \in Sids : (i < nBegin /\ StartResultArrives(i)) => UNCHANGED react]_vars

\* "Listen Again" is pressed in this step.
ReplayStep == nReplay' = nReplay + 1

\* C6: replay is idempotent: every replay with no begin since the previous
\* replay issues one synthesis request with the same answer text as the
\* previous replay, which is the displayed answer, invokes neither
\* transcription nor generation and leaves transcript and answer unchanged
\* (stated for the runs in which no call fails).
C6_ReplayIdempotent ==
  [][(ReplayStep /\ clean') =>
       /\ lastReplayText # "" => lastReplayText' = lastReplayText
       /\ lastReplayText' = geminiResponse
       /\ calls' = Append(calls, "synthesis")
       /\ UNCHANGED <<transcription, geminiResponse, stopPc>>]_vars

\* The happy path has run to its end: one begin, permission granted, one
\* end, a transcript and an answer returned, the utterance done, no call
\* failed, no replay, no teardown.
HappyPathDone ==
  /\ nBegin = 1 /\ startPc[1] = "started"
  /\ clean /\ mounted /\ nReplay = 0
  /\ lastGen # "" /\ stopPc = "idle" /\ speechQueue = <<>>

\* C7: at the end of the happy path the state is Idle with transcript = T,
\* answer = A, no error, the toggle enabled, and exactly one transcription,
\* one generation and one synthesis request were issued, in that order.
C7_HappyPath ==
  HappyPathDone =>
    /\ SessionState = "Idle"
    /\ ~ToggleDisabled
    /\ lastStt \in Transcripts /\ transcription = lastStt
    /\ lastGen \in Answers /\ geminiResponse = lastGen
    /\ error = NoError
    /\ calls = <<"transcription", "generation", "synthesis">>

C7_Witness == HappyPathDone /\ geminiResponse \in Answers

\* The speech-to-text answer without a transcript is handled in this step.
NoSpeechStep == stopPc = "stt" /\ stopPc' = "delete"
\* stopRecording returns from the no-speech path with the file deleted.
NoSpeechEnds ==
  /\ stopPc = "delete" /\ stopPc' = "idle" /\ lastStt = NoSpeech
  /\ file[stopRec] /\ ~file'[stopRec]

\* C8: a speech-to-text answer without results is not an error: transcript
\* becomes "No speech detected", generation and synthesis are not invoked,
\* answer and lastError stay unset, and the final state is Idle (stated for
\* the runs in which no call fails).
C8_NoSpeechIsNotAnError ==
  [][/\ (mounted /\ clean' /\ NoSpeechStep) =>
          /\ transcription' = NoSpeech
          /\ geminiResponse' = "" /\ error' = NoError
          /\ calls' = calls
     /\ (mounted /\ clean' /\ NoSpeechEnds) =>
          /\ SessionState' = "Idle"
          /\ transcription' = NoSpeech
          /\ geminiResponse' = "" /\ error' = NoError
          /\ calls' = <<"transcription">>]_vars

\* C9: when permission is denied the state becomes Error with an error of
\* kind PermissionDenied and is not Recording, and no capture is attempted
\* for that begin: while the permission error is shown the state is Error,
\* and a begin that was denied has no recording and no file.
C9_PermissionDenied ==
  mounted =>
    /\ \A i \in Sids : startPc[i] = "denied" => recState[i] = "none" /\ ~file[i]
    /\ error = PermissionError => SessionState = "Error"

\* The generation service fails in this step (network failure or a status
\* that is not ok).
GenerationServiceFails ==
  /\ stopPc = "gen" /\ stopPc' = "idle"
  /\ error'[2] \in {MsgNetwork, MsgGeminiHttp}

\* C10: when the generation service fails after a transcription the state
\* becomes Error with an error of kind GenerationFailed, the transcript of
\* the prior stage is still set, answer stays unset and synthesis is not
\* invoked (stated for the runs in which no earlier call failed).
C10_GenerationFailure ==
  [][(mounted /\ clean /\ GenerationServiceFails) =>
       /\ SessionState' = "Error"
       /\ "GenerationFailed" \in ErrorKinds(error')
       /\ transcription' = lastStt /\ lastStt \in Transcripts
       /\ geminiResponse' = ""
       /\ calls' = <<"transcription", "generation">>]_vars

\* What is really in progress, as opposed to what the flags show: a
\* stopRecording invocation before its generation request, at its generation
\* request, and an utterance held by the speech service.
Transcribing == stopPc \in {"stopAndUnload", "read", "stt"}
Generating == stopPc = "gen"
Speaking == speechQueue # <<>>

\* C11: while a transcription, a generation or an utterance (also one of a
\* replay) is in progress the toggle is disabled, so no press starts or ends
\* a recording; while an utterance is in progress the replay control is
\* disabled.
C11_ControlsDisabledWhileBusy ==
  (mounted /\ clean) =>
    /\ (Transcribing \/ Generating \/ Speaking) => ToggleDisabled
    /\ Speaking => ~ReplayEnabled

\* C12: at most one external call per stage is outstanding: never two
\* capture starts and never two utterances (transcription and generation
\* are requested by the one stopRecording invocation, OneStopRecording).
C12_OneCallPerStage ==
  /\ Cardinality(CaptureStartsPending) <= 1
  /\ Len(speechQueue) <= 1

\* A press of the toggle that startRecording answers.
BeginStep == nBegin' = nBegin + 1

\* C13: a begin accepted from Idle or Error leaves nothing of the previous
\* Session: right after it error, answer and transcript are empty and no
\* utterance is in progress.
C13_BeginClearsPreviousSession ==
  [][(BeginStep /\ SessionState \in {"Idle", "Error"}) =>
       /\ error' = NoError
       /\ geminiResponse' = ""
       /\ transcription' = ""
       /\ speechQueue' = <<>>]_vars

\* No call of the orchestrator is outstanding.
NothingInFlight ==
  /\ BeginsInFlight = {}
  /\ stopPc = "idle"
  /\ speechQueue = <<>>

\* C14: in the Error state (error shown, nothing in flight) the toggle is
\* enabled and begins a recording, and replay is not accepted, also when an
\* answer is still shown.
C14_OnlyBeginInError ==
  (mounted /\ SessionState = "Error" /\ NothingInFlight) =>
    /\ ~ToggleDisabled
    /\ ~isRecording
    /\ ~ReplayEnabled

\* A synthesis request has been issued since the last begin.
SynthesisRequested == \E k \in 1..Len(calls) : calls[k] = "synthesis"

\* The utterances that have ended since the last begin, in a run in which
\* no call has failed and the screen is mounted: those requested less those
\* still held by the speech service (only a begin and the unmount drop
\* utterances).
SpokenCount ==
  Cardinality({k \in 1..Len(calls) : calls[k] = "synthesis"}) - Len(speechQueue)

\* C15 as stated: the answer is non-empty exactly when a synthesis has
\* completed without error (stated for the runs in which no call failed).
C15_AnswerIffSpoken ==
  (mounted /\ clean) => ((geminiResponse # "") = (SpokenCount > 0))

\* C15, amended: the answer is non-empty exactly when the generation has
\* succeeded since the last begin; it is then the generated text and its
\* synthesis has been requested, whether or not that synthesis has completed
\* or has failed.
C15_AnswerIffGenerated ==
  mounted =>
    /\ (geminiResponse # "") = (lastGen # "")
    /\ geminiResponse # "" => (geminiResponse = lastGen /\ SynthesisRequested)

\* An answer is shown whose only synthesis failed.
C15_Witness ==
  /\ mounted /\ geminiResponse \in Answers
  /\ calls = <<"transcription", "generation", "synthesis">>
  /\ speechQueue = <<>>
  /\ error[1] = SpeechErrorPrefix

\* A recorder that is still prepared, or the file a recording wrote.
AudioHandleExists == \E i \in Sids : recState[i] = "live" \/ file[i]

\* C16: the audio handle exists only while a recording runs or is being
\* transcribed; it is released before generation, speaking, Idle and Error.
C16_AudioHandleReleased ==
  (mounted /\ AudioHandleExists) => (isRecording \/ Transcribing)

\* C17: with a required API key absent no begin is accepted, and the absence
\* never shows as an error in the middle of a Session.
C17_MissingKeyFailsAtStartup ==
  /\ (~apiKeys["GEMINI"] \/ ~apiKeys["GOOGLE_CLOUD"]) => nBegin = 0
  /\ error[2] # MsgGeminiKey

\* The steps in which an external call of a stage fails: createAsync or
\* setAudioModeAsync of startRecording; stopAndUnloadAsync; the transcription
\* fetch; getGeminiResponse; Speech.speak.
CaptureStartFails ==
  \E i \in Sids : startPc[i] \in {"audioMode", "create"} /\ startPc'[i] = "failed"
CaptureStopFails == stopPc = "stopAndUnload" /\ stopPc' = "idle"
TranscriptionFails == stopPc = "stt" /\ stopPc' = "idle" /\ lastStt' = lastStt
GenerationFails ==
  /\ stopPc' = "idle"
  /\ stopPc = "gen" \/ (stopPc = "stt" /\ lastStt' # lastStt)
SynthesisFails == calls' = Append(calls, "synthesis") /\ speechQueue' = speechQueue

\* deleteAsync fails after the answer (or after no speech was detected).
CleanupFails ==
  stopPc = "delete" /\ stopPc' = "idle" /\ error'[1] = ProcessingFailed

\* C18: every failure of an external call is caught and sets the error to
\* the kind of the stage that raised it, and a failure that ends
\* startRecording or stopRecording leaves the state Error.
C18_FailureSetsKindOfStage ==
  [][mounted =>
       /\ CaptureStartFails =>
            (ErrorKinds(error') = {"CaptureFailed"} /\ SessionState' = "Error")
       /\ CaptureStopFails =>
            (ErrorKinds(error') = {"CaptureFailed"} /\ SessionState' = "Error")
       /\ TranscriptionFails =>
            (ErrorKinds(error') = {"TranscriptionFailed"} /\ SessionState' = "Error")
       /\ GenerationFails =>
            (ErrorKinds(error') = {"GenerationFailed"} /\ SessionState' = "Error")
       /\ SynthesisFails => ErrorKinds(error') = {"SynthesisFailed"}]_vars

\* C19: whenever an error is shown no recording is active and no utterance
\* is in progress (stated for the first Session, where no begin overlaps).
C19_ErrorMeansQuiet ==
  (mounted /\ nBegin = 1 /\ error # NoError) => (~isRecording /\ ~Speaking)

\* Order of the awaits of stopRecording.
StopRank(pc) ==
  CASE pc = "idle" -> 0
    [] pc = "stopAndUnload" -> 1
    [] pc = "read" -> 2
    [] pc = "stt" -> 3
    [] pc = "gen" -> 4
    [] pc = "delete" -> 5

\* A request is added to the requests of the Session in this step.
Requests(kind) ==
  /\ Len(calls') = Len(calls) + 1
  /\ calls'[Len(calls')] = kind

\* C20: no retries.  A transcription is requested only when the recording
\* has been read, a generation only in the step in which the transcription
\* answers without failure and a synthesis only in the step in which the
\* generation answers with a text;
\* stopRecording only moves forward through its stages or returns, and is
\* run once for each recording; an invocation that has returned stays
\* returned; a failure of capture stop, transcription or generation issues
\* no request and changes neither transcript nor answer, the transcript
\* obtained before a generation failure stays set, and so do transcript and
\* answer when the deletion of the file fails.
C20_NoRetries ==
  [][/\ Requests("transcription") => (stopPc = "read" /\ stopPc' = "stt")
     /\ Requests("generation") =>
          /\ stopPc = "stt" /\ stopPc' = "gen"
          /\ clean' = clean /\ error' = error
          /\ mounted => (transcription' = lastStt' /\ lastStt' \in Transcripts)
     /\ (Requests("synthesis") /\ ~ReplayStep) =>
          /\ stopPc = "gen" /\ stopPc' = "delete"
          /\ mounted => (geminiResponse' = lastGen' /\ lastGen' \in Answers)
     /\ stopPc' # stopPc =>
          (stopPc' = "idle" \/ StopRank(stopPc') > StopRank(stopPc))
     /\ (stopPc = "idle" /\ stopPc' # "idle") => recState[stopRec'] = "live"
     /\ \A i \in Sids : startPc[i] \in StartReturned => startPc'[i] = startPc[i]
     /\ (CaptureStopFails \/ TranscriptionFails \/ GenerationFails) =>
          /\ calls' = calls
          /\ geminiResponse' = geminiResponse
          /\ stopPc \in {"stopAndUnload", "gen"} => transcription' = transcription
          /\ TranscriptionFails => transcription' = transcription
          /\ (mounted /\ GenerationFails) => transcription' \in Transcripts
     /\ (mounted /\ CleanupFails) =>
          /\ calls' = calls
          /\ transcription' = transcription
          /\ geminiResponse' = geminiResponse
    ]_vars

\* The generation service answers 2xx with a body in which
\* candidates[0].content.parts[0].text is missing: the expression either
\* throws (caught by stopRecording) or evaluates to undefined.
MissingPathStep ==
  /\ stopPc = "gen"
  /\ \/ stopPc' = "idle" /\ error'[2] = MsgTypeError
     \/ stopPc' = "delete" /\ lastGen' = Undefined

\* C23: a 2xx generation response with the text path missing is a generation
\* failure: the state becomes Error with an error of kind GenerationFailed,
\* the answer stays unset and no synthesis is requested (stated for the runs
\* in which no earlier call failed).
C23_MissingPathIsGenerationFailure ==
  [][(mounted /\ clean /\ MissingPathStep) =>
       /\ SessionState' = "Error"
       /\ "GenerationFailed" \in ErrorKinds(error')
       /\ geminiResponse' = ""
       /\ calls' = calls]_vars

\* C21: the stages of a Session are strictly sequential: a transcription is
\* requested only once the capture has stopped, a generation only in the
\* step in which the transcription answers with a transcript, the first
\* synthesis only in the step in which the generation answers with a text,
\* and a transcription or generation is never outstanding together with an
\* utterance.
C21_StrictlySequential ==
  [][/\ Requests("transcription") =>
          (stopPc = "read" /\ recState[stopRec] = "unloaded")
     /\ Requests("generation") =>
          (stopPc = "stt" /\ lastStt' \in Transcripts)
     /\ (Requests("synthesis") /\ ~SynthesisRequested) =>
          (stopPc = "gen" /\ lastGen' \in Answers)
     /\ ~(stopPc' \in {"stt", "gen"} /\ speechQueue' # <<>>)
    ]_vars

\* The step in which stopRecording runs setTranscription, and the one in
\* which it runs setGeminiResponse.
AssignsTranscript == stopPc = "stt" /\ stopPc' # "stt" /\ ~TranscriptionFails
AssignsAnswer == stopPc = "gen" /\ stopPc' = "delete"

\* C22: between two begins the transcript is assigned at most once, only by
\* a transcription that succeeded, and the answer at most once, only by a
\* generation that succeeded; nothing else (replay, synthesis callbacks,
\* errors) changes either.
C22_AssignedOnce ==
  [][mounted =>
       /\ transcription' # transcription => AssignsTranscript
       /\ AssignsTranscript => (lastStt = "" /\ transcription' = lastStt')
       /\ (geminiResponse' # geminiResponse /\ ~BeginStep) => AssignsAnswer
       /\ AssignsAnswer => (lastGen = "" /\ geminiResponse' = lastGen')
    ]_vars

\* The speech service reports the end of the utterance at the head of its
\* queue (onDone or onError) to the mounted screen.
UtteranceEnds ==
  /\ mounted' /\ ~BeginStep
  /\ speechQueue # <<>> /\ speechQueue' = Tail(speechQueue)

\* C24: a synthesis failure, thrown by the speak call or reported by the
\* error callback, sets an error of kind SynthesisFailed, clears the
\* speaking flag and changes neither transcript nor answer; a completion
\* clears the speaking flag, sets no error and, with nothing else in
\* flight, leaves the state Idle (stated for the runs in which no earlier
\* call failed).
C24_SynthesisOutcome ==
  [][(mounted /\ clean) =>
       /\ (SynthesisFails \/ (UtteranceEnds /\ ~clean')) =>
            /\ ErrorKinds(error') = {"SynthesisFailed"}
            /\ ~isSpeaking'
            /\ transcription' = transcription
            /\ geminiResponse' = IF AssignsAnswer THEN lastGen' ELSE geminiResponse
       /\ (UtteranceEnds /\ clean') =>
            /\ ~isSpeaking'
            /\ error' = error
            /\ transcription' = transcription /\ geminiResponse' = geminiResponse
            /\ NothingInFlight' => SessionState' = "Idle"
    ]_vars

\* C25: when every external call settles and every utterance ends, every
\* startRecording and stopRecording invocation returns and a disabled
\* toggle is enabled again (while the screen stays mounted).
C25_ToggleEnabledAgain ==
  (mounted /\ (ToggleDisabled \/ stopPc # "idle" \/ BeginsInFlight # {}))
    ~> (~mounted \/ (~ToggleDisabled /\ stopPc = "idle" /\ BeginsInFlight = {}))

\* A Session has run through synthesis and the toggle is enabled again.
C25_Witness ==
  /\ mounted /\ ~ToggleDisabled /\ NothingInFlight
  /\ SynthesisRequested /\ ~isRecording

\* C26: whenever the toggle acts as end, the recording held is one that a
\* returned startRecording created and that is still live, so stopRecording
\* never runs with a null recording nor stops an ended one.
C26_EndHoldsItsRecording ==
  (mounted /\ isRecording) =>
    /\ recording # Null
    /\ recState[recording] = "live"
    /\ startPc[recording] = "started"

\* ------------------------------------------------- claims, card game
\* A pair is waiting to be resolved: the callback of its timer is pending.
PairWaits == timers # {}

\* There is never more than one timer pending, and it belongs to the two
\* cards flipped first.
OneTimer ==
  /\ Cardinality(timers) <= 1
  /\ PairWaits => Len(gameState.flippedIndices) >= 2

\* C27: at most two unmatched cards are face-up at any time: flippedIndices
\* never holds more than two entries, also when further cards are pressed
\* during the 1000 ms or 1500 ms delay before a pair is resolved.
C27_AtMostTwoFaceUp == Len(gameState.flippedIndices) <= 2

\* The ids of the cards of the level, and the cards recorded as matched.
CardIds == {gameState.cards[i].id : i \in 1..Len(gameState.cards)}
Matched == {gameState.matchedPairs[k] : k \in 1..Len(gameState.matchedPairs)}
CardOfId(id) == CHOOSE c \in {gameState.cards[i] : i \in 1..Len(gameState.cards)} : c.id = id
IsPrefix(s, t) == Len(s) <= Len(t) /\ \A k \in 1..Len(s) : s[k] = t[k]

\* What matchedPairs holds during a game: cards of the level, each at most
\* once, the entries 2k-1 and 2k being two distinct cards with the same
\* emotion name; and the celebration is shown exactly when it holds every
\* card of the level.
WholePairs ==
  gameState.level # NoLevel =>
    /\ Matched \subseteq CardIds
    /\ Cardinality(Matched) = Len(gameState.matchedPairs)
    /\ Len(gameState.matchedPairs) % 2 = 0
    /\ \A k \in 1..Len(gameState.matchedPairs) :
         k % 2 = 1 =>
           /\ gameState.matchedPairs[k] # gameState.matchedPairs[k + 1]
           /\ CardOfId(gameState.matchedPairs[k]).name
                = CardOfId(gameState.matchedPairs[k + 1]).name
    /\ showCelebration = (Matched = CardIds)

\* C28: matchedPairs only grows while a game is played, and only by whole
\* pairs of two distinct cards with the same emotion name, never a card with
\* itself; the celebration is shown exactly when every card of the level is
\* in matchedPairs; without a level nothing is matched and nothing shown.
C28_MatchedPairsGrowByPairs ==
  [][/\ WholePairs'
     /\ (gameState.level # NoLevel /\ gameState'.level # NoLevel)
          => IsPrefix(gameState.matchedPairs, gameState'.matchedPairs)
     /\ gameState'.level = NoLevel
          => gameState'.matchedPairs = <<>> /\ ~showCelebration']_vars

\* The last pair of a level has been matched and the celebration is shown.
C28_Witness ==
  /\ gameState.level # NoLevel /\ showCelebration
  /\ Len(gameState.matchedPairs) = 2 * Pairs(gameState.level)

\* The step resolves a pair: the callback of its timer runs.
ResolvesPair == PairWaits /\ timers' = {} /\ gameState'.flippedIndices = <<>>

\* C29: moves grows by one in each step that resolves a pair, match or
\* mismatch, and is changed by no other step of a game; a press while a
\* pair waits adds no move, starts no timer and matches nothing.
C29_MovePerResolvedPair ==
  [][/\ ResolvesPair => gameState'.moves = gameState.moves + 1
     /\ (~ResolvesPair /\ gameState'.level # NoLevel /\ gameState.level # NoLevel)
          => gameState'.moves = gameState.moves
     /\ (PairWaits /\ ~ResolvesPair)
          => /\ timers' = timers
             /\ gameState'.matchedPairs = gameState.matchedPairs
             /\ gameState'.moves = gameState.moves]_vars

\* A mismatch and a match have been resolved and a third card was pressed
\* while the pair was waiting.
C29_Witness ==
  /\ gameState.moves >= 2 /\ gameState.matchedPairs # <<>>
  /\ Len(gameState.matchedPairs) < 2 * gameState.moves
  /\ PairWaits /\ Len(gameState.flippedIndices) = 3

\* --------------------------------------------- claims, emotion detector
\* The step in which takePictureAsync gives invocation i its photo, and the
\* step in which analyzeEmotion settles for it.
ObtainsPhoto(i) == shotPc[i] = "camera" /\ uri' = i
AnalysisSettles(i) == shotPc[i] = "analyze" /\ shotPc'[i] # "analyze"
DetectorResets == uri # Null /\ uri' = Null

\* C30: after takePicture obtains a photo, analyzeEmotion is run for it and
\* emotion is set to the label it returns, so that the result screen shows
\* the photo and its emotion; resetGame clears uri and emotion.
C30_EmotionOfThePhoto ==
  [][/\ \A i \in Shots :
          /\ ObtainsPhoto(i) => shotPc'[i] = "analyze"
          /\ AnalysisSettles(i)
               => labelOf'[i] \in EmotionKeys /\ emotion' = labelOf'[i]
     /\ DetectorResets => emotion' = NoEmotion]_vars

\* C31: analyzeEmotion gives every outcome a label, and the label is one of
\* the six keys of EMOTIONS: "No face detected" when reading the file, the
\* request or the parsing of its answer failed or the answer holds no face
\* annotation; otherwise the label of the first of joy, anger, sorrow,
\* surprise whose likelihood is VERY_LIKELY; and "Neutral" when none is.
C31_LabelOfAnalysis ==
  \A i \in Shots :
    LET outcome == outcomeOf[i]
        precedence ==
          <<[field |-> "joyLikelihood", key |-> "Happy U+1F60A"],
            [field |-> "angerLikelihood", key |-> "Angry U+1F621"],
            [field |-> "sorrowLikelihood", key |-> "Sad U+1F622"],
            [field |-> "surpriseLikelihood", key |-> "Surprised U+1F632"]>>
        annotations ==
          IF outcome.kind = "json" /\ "responses" \in DOMAIN outcome.result
               /\ outcome.result.responses # <<>>
               /\ "faceAnnotations" \in DOMAIN outcome.result.responses[1]
            THEN outcome.result.responses[1].faceAnnotations ELSE <<>>
        veryLikely ==
          {k \in 1..Len(precedence) :
             /\ precedence[k].field \in DOMAIN annotations[1]
             /\ annotations[1][precedence[k].field] = "VERY_LIKELY"}
    IN /\ (shotPc[i] \in {"threwAfter", "assigned"}) = (outcome # NotAnalysed)
       /\ outcome # NotAnalysed =>
            /\ labelOf[i] \in EmotionKeys
            /\ labelOf[i] =
                 IF annotations = <<>> THEN "No face detected U+1F615"
                 ELSE IF veryLikely = {} THEN "Neutral"
                 ELSE precedence[CHOOSE k \in veryLikely :
                                   \A l \in veryLikely : k <= l].key

\* An analysis has settled for a face on which anger, sorrow and surprise are
\* all VERY_LIKELY and joy is not, and another one has failed.
C31_Witness ==
  \E i, j \in Shots :
    /\ outcomeOf[i].kind = "json" /\ HasFace(outcomeOf[i].result)
    /\ LET face == outcomeOf[i].result.responses[1].faceAnnotations[1]
       IN /\ ~VeryLikely(face, "joyLikelihood")
          /\ VeryLikely(face, "angerLikelihood")
          /\ VeryLikely(face, "sorrowLikelihood")
          /\ VeryLikely(face, "surpriseLikelihood")
    /\ labelOf[i] = "Angry U+1F621"
    /\ outcomeOf[j].kind \in {"readFails", "fetchFails", "jsonFails"}
    /\ labelOf[j] = "No face detected U+1F615"

====
